---- MODULE Spec2Model ----
(***************************************************************************)
(* Model of octavia/amphorae/backends/agent/api_server/plug.py: the        *)
(* amphora agent's Plug class (plug_vip, plug_network and their helpers).  *)
(*                                                                         *)
(* The state is what the workflows read and change outside the process:    *)
(* the amphora network namespace and its links, the links of the default   *)
(* namespace, the interface configuration files written through osutils,   *)
(* the plugged_interfaces file ("the ledger") and the PCI rescan trigger.  *)
(* Each workflow is cut into one action per statement that touches that    *)
(* state, so that a step may raise (Fault) and so that two workflows may   *)
(* interleave (SpecConc).  Spec runs the workflows of one worker, one      *)
(* after the other.                                                        *)
(***************************************************************************)
EXTENDS Integers, Sequences, FiniteSets, TLC

(***************************************************************************)
(* Bounds.                                                                 *)
(***************************************************************************)
\* Number of distinct hardware addresses (NICs nova may hot plug).
NumMacs == 2

\* The hardware addresses of those NICs.
Macs == {"fa:16:3e:00:00:0" \o ToString(n) : n \in 1..NumMacs}

\* The workers of SpecConc.  Spec has worker 1 only.
Procs == {1, 2}

(***************************************************************************)
(* Inputs.  Addresses are the strings a caller sends; the parsers below    *)
(* tabulate what Python's ipaddress and socket modules answer for them.    *)
(***************************************************************************)
\* <<vip, subnet_cidr>>: an IPv4 and an IPv6 VIP, a VIP that is no address,
\* and a CIDR with host bits set (ip_network() is strict and raises).
VipInputs ==
    { <<"10.0.0.5", "10.0.0.0/24">>,
      <<"2001:db8::1", "2001:db8::/64">>,
      <<"10.0.0.256", "10.0.0.0/24">>,
      <<"10.0.0.5", "10.0.0.5/24">> }

\* fixed_ips (their ip_address members): an IPv4 and an IPv6 address, and a
\* list whose second address is neither.
FixedIpsInputs ==
    { <<"192.168.1.10", "fe80::1">>,
      <<"192.168.1.10", "300.1.1.1">> }

\* ipaddress.ip_address(vip): version and exploded form, or ValueError.
ip_address(vip) ==
    CASE vip = "10.0.0.5" ->
           [ok |-> TRUE, version |-> 4, exploded |-> "10.0.0.5"]
      [] vip = "2001:db8::1" ->
           [ok |-> TRUE, version |-> 6,
            exploded |-> "2001:0db8:0000:0000:0000:0000:0000:0001"]
      [] OTHER ->
           [ok |-> FALSE, version |-> 0, exploded |-> ""]

\* ipaddress.ip_network(subnet_cidr): prefix length, or ValueError.
ip_network(subnet_cidr) ==
    CASE subnet_cidr = "10.0.0.0/24" -> [ok |-> TRUE, prefixlen |-> 24]
      [] subnet_cidr = "2001:db8::/64" -> [ok |-> TRUE, prefixlen |-> 64]
      [] OTHER -> [ok |-> FALSE, prefixlen |-> 0]

\* Mutant: the try block parses the VIP and forgets the CIDR.
VipParsesVipOnly(vip, subnet_cidr) == ip_address(vip).ok

\* The try block of plug_vip: both parses succeed, or ValueError.
VipParses(vip, subnet_cidr) ==
    ip_address(vip).ok /\ ip_network(subnet_cidr).ok

\* socket.inet_pton(family, address) succeeds.
inet_pton(family, address) ==
    CASE family = "AF_INET"  -> address \in {"192.168.1.10"}
      [] family = "AF_INET6" -> address \in {"fe80::1"}
      [] OTHER -> FALSE

\* _check_ip_addresses returns without raising socket.error: every address
\* parses as AF_INET or, failing that, as AF_INET6.
_check_ip_addresses(fixed_ips) ==
    \A i \in 1..Len(fixed_ips) :
        inet_pton("AF_INET", fixed_ips[i]) \/ inet_pton("AF_INET6", fixed_ips[i])

(***************************************************************************)
(* Well-known names.                                                       *)
(***************************************************************************)
\* consts.NETNS_PRIMARY_INTERFACE: "Always put the VIP interface as eth1".
NETNS_PRIMARY_INTERFACE == "eth1"

\* 'eth{0}'.format(n)
EthName(n) == "eth" \o ToString(n)

\* The loopback link every new network namespace is born with.
Loopback == [name |-> "lo", mac |-> "00:00:00:00:00:00", up |-> FALSE]

VARIABLES
    nsExists,    \* the amphora namespace exists
    nsLinks,     \* links of the amphora namespace: [name, mac, up]
    defLinks,    \* hardware addresses of the NICs in the default namespace
    files,       \* interface configuration files written through osutils
    ledger,      \* lines of the plugged_interfaces file: [mac, name]
    pc,          \* per worker: the statement it is at
    req,         \* per worker: the request it serves
    resp,        \* per worker: the response of its last request
    loc,         \* per worker: local variables of the workflow
    trace,       \* per worker: what the current call has done so far
    changed      \* per worker: what the current call has changed so far

vars == <<nsExists, nsLinks, defLinks, files, ledger,
          pc, req, resp, loc, trace, changed>>

(***************************************************************************)
(* Values of the per-worker variables.                                     *)
(***************************************************************************)
NoReq == [op |-> "none", mac |-> "", vip |-> "", cidr |-> "", fixed_ips |-> <<>>]

NoResp == [status |-> 0, message |-> "", interface |-> ""]

NoLoc == [netns_interface |-> "", inf_list |-> {}, offset |-> 0, i |-> 0]

NoTrace ==
    [where |-> "", repeat |-> FALSE, retry |-> FALSE,
     lookups |-> 0, isfile |-> FALSE, rescans |-> 0, count |-> 0,
     cmds |-> <<>>, nonzero |-> FALSE, moved |-> FALSE]

Init ==
    /\ nsExists = FALSE
    /\ nsLinks = {}
    /\ defLinks = {}
    /\ files = {}
    /\ ledger = <<>>
    /\ pc = [p \in {1} |-> "idle"]
    /\ req = [p \in {1} |-> NoReq]
    /\ resp = [p \in {1} |-> NoResp]
    /\ loc = [p \in {1} |-> NoLoc]
    /\ trace = [p \in {1} |-> NoTrace]
    /\ changed = [p \in {1} |-> {}]

(***************************************************************************)
(* Helpers shared by the steps.                                            *)
(***************************************************************************)
Goto(p, label) == pc' = [pc EXCEPT ![p] = label]

\* The same, for a step that leaves the response and the locals alone.
Continue(p, label) == Goto(p, label) /\ UNCHANGED <<resp, loc>>

\* return webob.Response(json=dict(message=...), status=...)
Return(p, status, message, interface) ==
    /\ pc' = [pc EXCEPT ![p] = "done"]
    /\ loc' = [loc EXCEPT ![p] = NoLoc]
    /\ resp' = [resp EXCEPT ![p] = [status |-> status, message |-> message,
                                    interface |-> interface]]

\* pyroute2.NetNS(consts.AMPHORA_NAMESPACE, flags=os.O_CREAT): the namespace
\* is created, with its loopback link, when it does not exist.
NetNSCreate ==
    /\ nsExists' = TRUE
    /\ nsLinks' = IF nsExists THEN nsLinks ELSE {Loopback}

\* The parts of the external state that the step being taken changes.
ChangedByStep ==
    (IF nsExists' # nsExists THEN {"namespaces"} ELSE {})
    \cup (IF nsLinks' # nsLinks THEN {"target links"} ELSE {})
    \cup (IF defLinks' # defLinks THEN {"default links"} ELSE {})
    \cup (IF files' # files THEN {"files"} ELSE {})
    \cup (IF ledger' # ledger THEN {"ledger"} ELSE {})

\* A step of worker p adds what it changes to what p's call has changed.
Observe(p) == changed' = [changed EXCEPT ![p] = @ \cup ChangedByStep]

\* The first step of a call starts the account afresh.
ObserveFirst(p) == changed' = [changed EXCEPT ![p] = ChangedByStep]

\* Where the interface with a hardware address is.
Where(mac) ==
    IF \E l \in nsLinks : l.mac = mac THEN "target"
    ELSE IF mac \in defLinks THEN "default"
    ELSE "absent"

\* The call before this one on the same worker was the same request and
\* ended with the given status.
PreviousWas(p, r, status) ==
    pc[p] = "done" /\ req[p] = r /\ resp[p].status = status

\* What every call starts with.
Enter(p, r) ==
    /\ pc[p] \in {"idle", "done"}
    /\ req' = [req EXCEPT ![p] = r]
    /\ trace' = [trace EXCEPT ![p] =
                   [NoTrace EXCEPT !.where = Where(r.mac),
                                   !.repeat = PreviousWas(p, r, 202),
                                   !.retry = PreviousWas(p, r, 500)]]

(***************************************************************************)
(* The environment: nova hot plugs a NIC, which shows up in the default    *)
(* namespace.                                                              *)
(***************************************************************************)
HotPlug(mac) ==
    /\ mac \notin defLinks
    /\ \A l \in nsLinks : l.mac # mac
    /\ defLinks' = defLinks \cup {mac}
    /\ UNCHANGED <<nsExists, nsLinks, files, ledger,
                   pc, req, resp, loc, trace, changed>>

(***************************************************************************)
(* plug_vip, lines 46-56: validate vip and subnet_cidr.                    *)
(***************************************************************************)
PlugVipBegin(p, vip, subnet_cidr, mac) ==
    /\ Enter(p, [op |-> "plug_vip", mac |-> mac, vip |-> vip,
                 cidr |-> subnet_cidr, fixed_ips |-> <<>>])
    /\ IF VipParses(vip, subnet_cidr)
         THEN Continue(p, "exists")
         ELSE Return(p, 400, "Invalid VIP", "")
    /\ UNCHANGED <<nsExists, nsLinks, defLinks, files, ledger>>
    /\ ObserveFirst(p)

(***************************************************************************)
(* plug_network, line 135: entry.                                          *)
(***************************************************************************)
PlugNetworkBegin(p, mac, fixed_ips) ==
    /\ Enter(p, [op |-> "plug_network", mac |-> mac, vip |-> "",
                 cidr |-> "", fixed_ips |-> fixed_ips])
    /\ Continue(p, "exists")
    /\ UNCHANGED <<nsExists, nsLinks, defLinks, files, ledger>>
    /\ ObserveFirst(p)

(***************************************************************************)
(* _netns_interface_exists, lines 226-233, and the 409 of its callers.     *)
(***************************************************************************)
\* Mutant: the loop never matches an address, so the check answers False.
NetnsHasMacNever(links, mac_address) == FALSE

NetnsHasMac(links, mac_address) == \E l \in links : l.mac = mac_address

NetnsInterfaceExists(p) ==
    /\ pc[p] = "exists"
    /\ NetNSCreate
    /\ IF NetnsHasMac(nsLinks, req[p].mac)
         THEN Return(p, 409, "Interface already exists", "")
         ELSE Continue(p, IF req[p].op = "plug_vip" THEN "lookup" ELSE "check_ips")
    /\ UNCHANGED <<defLinks, files, ledger, req, trace>>
    /\ Observe(p)

(***************************************************************************)
(* plug_network, lines 146-150: the fixed_ips check.                       *)
(***************************************************************************)
CheckIpAddresses(p) ==
    /\ pc[p] = "check_ips"
    /\ IF _check_ip_addresses(req[p].fixed_ips)
         THEN Continue(p, "lookup")
         ELSE Return(p, 400, "Invalid network port", "")
    /\ UNCHANGED <<nsExists, nsLinks, defLinks, files, ledger, req, trace>>
    /\ Observe(p)

(***************************************************************************)
(* _interface_by_mac, lines 190-212.                                       *)
(***************************************************************************)
\* Mutant: the trigger is written without the isfile test.
RescanWritesUnguarded(isfile) == 1

\* Writes of '1' to /sys/bus/pci/rescan: one when the path is a regular file.
RescanWrites(isfile) == IF isfile THEN 1 ELSE 0

\* isfile: what os.path.isfile('/sys/bus/pci/rescan') answers on this host.
InterfaceByMac(p, isfile) ==
    /\ pc[p] = "lookup"
    /\ IF req[p].mac \in defLinks
         THEN /\ Continue(p, IF req[p].op = "plug_vip" THEN "vip_write_file"
                                                       ELSE "net_name")
              /\ trace' = [trace EXCEPT ![p].lookups = @ + 1]
         ELSE /\ trace' = [trace EXCEPT ![p].lookups = @ + 1,
                                        ![p].isfile = isfile,
                                        ![p].rescans = @ + RescanWrites(isfile)]
              /\ Return(p, 404, "No suitable network interface found", "")
    /\ UNCHANGED <<nsExists, nsLinks, defLinks, files, ledger, req>>
    /\ Observe(p)

(***************************************************************************)
(* The configuration files, written through osutils: one file per          *)
(* interface name, a later write replacing an earlier one.                 *)
(***************************************************************************)
WriteFile(fs, f) == {g \in fs : g.interface # f.interface} \cup {f}

\* plug_vip, lines 68-79.
WriteVipInterfaceFile(p) ==
    /\ pc[p] = "vip_write_file"
    /\ files' = WriteFile(files,
          [interface |-> NETNS_PRIMARY_INTERFACE, kind |-> "vip",
           vip |-> ip_address(req[p].vip).exploded,
           ip_version |-> ip_address(req[p].vip).version,
           prefixlen |-> ip_network(req[p].cidr).prefixlen,
           fixed_ips |-> <<>>])
    /\ loc' = [loc EXCEPT ![p].netns_interface = NETNS_PRIMARY_INTERFACE]
    /\ Goto(p, "ledger_open")
    /\ UNCHANGED <<nsExists, nsLinks, defLinks, ledger,
                   req, resp, trace>>
    /\ Observe(p)

\* plug_network, lines 156-162: the name inside the namespace.
NetnsInterfaceName(links) == EthName(Cardinality(links))

NameInterface(p) ==
    /\ pc[p] = "net_name"
    /\ NetNSCreate
    /\ loc' = [loc EXCEPT ![p].netns_interface = NetnsInterfaceName(nsLinks')]
    /\ trace' = [trace EXCEPT ![p].count = Cardinality(nsLinks')]
    /\ Goto(p, "net_write_file")
    /\ UNCHANGED <<defLinks, files, ledger, req, resp>>
    /\ Observe(p)

\* plug_network, lines 167-170.
WritePortInterfaceFile(p) ==
    /\ pc[p] = "net_write_file"
    /\ files' = WriteFile(files,
          [interface |-> loc[p].netns_interface, kind |-> "port",
           vip |-> "", ip_version |-> 0, prefixlen |-> 0,
           fixed_ips |-> req[p].fixed_ips])
    /\ Goto(p, "ledger_open")
    /\ UNCHANGED <<nsExists, nsLinks, defLinks, ledger,
                   req, resp, loc, trace>>
    /\ Observe(p)

(***************************************************************************)
(* _update_plugged_interfaces_file, lines 214-224.  The file is opened     *)
(* O_RDWR | O_CREAT (no O_APPEND), read to its end, and the new line is    *)
(* written at the descriptor's offset, which is where the read stopped.    *)
(* Every line has the same length (a 17 character address, a space, a 4    *)
(* character name, a newline), so offsets are counted in lines.            *)
(***************************************************************************)
\* Mutant: the write starts at the beginning of the file, whatever was read.
WriteAtStart(file, offset, line) ==
    IF Len(file) = 0 THEN <<line>> ELSE [file EXCEPT ![1] = line]

\* write() at an offset of a file: at or past the end it extends the file,
\* before the end it replaces what is there.
WriteAt(file, offset, line) ==
    IF offset >= Len(file)
      THEN Append(file, line)
      ELSE [file EXCEPT ![offset + 1] = line]

\* Mutant: the list is built from the second column, the interface names.
InfListOfNames(file) == {file[k].name : k \in 1..Len(file)}

\* [inf.split()[0].rstrip() for inf in text_file]
InfList(file) == {file[k].mac : k \in 1..Len(file)}

\* Mutant: the line is never written.
LedgerAfterWriteNever(file, inf_list, offset, mac_address, interface) == file

\* Mutant: the line is written whether or not the address was read.
LedgerAfterWriteAlways(file, inf_list, offset, mac_address, interface) ==
    WriteAt(file, offset, [mac |-> mac_address, name |-> interface])

\* The text written by lines 222-224 given what was read.
LedgerAfterWrite(file, inf_list, offset, mac_address, interface) ==
    IF mac_address \notin inf_list
      THEN WriteAt(file, offset, [mac |-> mac_address, name |-> interface])
      ELSE file

LedgerOpen(p) ==
    /\ pc[p] = "ledger_open"
    /\ loc' = [loc EXCEPT ![p].offset = 0, ![p].inf_list = {}]
    /\ Goto(p, "ledger_read")
    /\ UNCHANGED <<nsExists, nsLinks, defLinks, files, ledger,
                   req, resp, trace>>
    /\ Observe(p)

LedgerRead(p) ==
    /\ pc[p] = "ledger_read"
    /\ loc' = [loc EXCEPT ![p].offset = Len(ledger),
                          ![p].inf_list = InfList(ledger)]
    /\ Goto(p, "ledger_write")
    /\ UNCHANGED <<nsExists, nsLinks, defLinks, files, ledger,
                   req, resp, trace>>
    /\ Observe(p)

LedgerWrite(p) ==
    /\ pc[p] = "ledger_write"
    /\ ledger' = LedgerAfterWrite(ledger, loc[p].inf_list, loc[p].offset,
                                  req[p].mac, loc[p].netns_interface)
    /\ Goto(p, IF req[p].op = "plug_vip" THEN "create_ns" ELSE "transplant")
    /\ UNCHANGED <<nsExists, nsLinks, defLinks, files,
                   req, resp, loc, trace>>
    /\ Observe(p)

(***************************************************************************)
(* plug_vip, lines 85-111: the namespace and its kernel settings.          *)
(***************************************************************************)
CreateNamespace(p) ==
    /\ pc[p] = "create_ns"
    /\ NetNSCreate
    /\ Goto(p, "sysctl")
    /\ UNCHANGED <<defLinks, files, ledger, req, resp, loc, trace>>
    /\ Observe(p)

\* Lines 90-96: sysctl --system, run in the namespace and waited for.
\* wait() returns the exit status and the code drops it.
SysctlSystem(p, returncode) ==
    /\ pc[p] = "sysctl"
    /\ trace' = [trace EXCEPT
                   ![p].cmds = Append(@, "sysctl --system"),
                   ![p].nonzero = @ \/ returncode # 0]
    /\ loc' = [loc EXCEPT ![p].i = 1]
    /\ Goto(p, "ns_exec")
    /\ UNCHANGED <<nsExists, nsLinks, defLinks, files, ledger,
                   req, resp>>
    /\ Observe(p)

\* Mutant: both forwarding settings are made, whatever the family.
CmdListBoth(version) ==
    <<"modprobe ip_vs", "sysctl -w net.ipv4.vs.conntrack=1",
      "sysctl -w net.ipv4.ip_forward=1",
      "sysctl -w net.ipv6.conf.all.forwarding=1">>

\* Lines 98-106.
CmdList(version) ==
    <<"modprobe ip_vs", "sysctl -w net.ipv4.vs.conntrack=1">>
    \o (CASE version = 4 -> <<"sysctl -w net.ipv4.ip_forward=1">>
          [] version = 6 -> <<"sysctl -w net.ipv6.conf.all.forwarding=1">>
          [] OTHER -> <<>>)

\* Lines 107-111: one turn of the loop; the exit status is dropped here too.
NsExec(p, returncode) ==
    LET cmd_list == CmdList(ip_address(req[p].vip).version) IN
    /\ pc[p] = "ns_exec"
    /\ loc[p].i <= Len(cmd_list)
    /\ trace' = [trace EXCEPT
                   ![p].cmds = Append(@, cmd_list[loc[p].i]),
                   ![p].nonzero = @ \/ returncode # 0]
    /\ loc' = [loc EXCEPT ![p].i = @ + 1]
    /\ Goto(p, IF loc[p].i = Len(cmd_list) THEN "transplant" ELSE "ns_exec")
    /\ UNCHANGED <<nsExists, nsLinks, defLinks, files, ledger,
                   req, resp>>
    /\ Observe(p)

(***************************************************************************)
(* Lines 113-117 and 175-180: the link is looked up by hardware address in *)
(* the default namespace, then moved into the amphora namespace and        *)
(* renamed in one netlink request.  link_lookup(...)[0] raises IndexError  *)
(* when no link carries the address; the kernel refuses the request        *)
(* (EEXIST) when the namespace already holds a link of that name.  A link  *)
(* arrives in its new namespace administratively down.                     *)
(***************************************************************************)
NameTaken(links, name) == \E l \in links : l.name = name

Transplant(p) ==
    /\ pc[p] = "transplant"
    /\ IF req[p].mac \in defLinks /\ nsExists
          /\ ~NameTaken(nsLinks, loc[p].netns_interface)
         THEN /\ defLinks' = defLinks \ {req[p].mac}
              /\ nsLinks' = nsLinks \cup
                    {[name |-> loc[p].netns_interface, mac |-> req[p].mac,
                      up |-> FALSE]}
              /\ trace' = [trace EXCEPT ![p].moved = TRUE]
              /\ Continue(p, IF req[p].op = "plug_vip" THEN "vip_bring_up"
                                                       ELSE "net_bring_down")
         ELSE /\ Return(p, 500, "Internal Server Error", "")
              /\ UNCHANGED <<defLinks, nsLinks, trace>>
    /\ UNCHANGED <<nsExists, files, ledger, req>>
    /\ Observe(p)

\* ifup / ifdown of an interface of the namespace.
SetLink(links, name, up) ==
    {IF l.name = name THEN [l EXCEPT !.up = up] ELSE l : l \in links}

\* plug_vip, lines 119-125.
BringInterfacesUp(p) ==
    /\ pc[p] = "vip_bring_up"
    /\ nsLinks' = SetLink(nsLinks, NETNS_PRIMARY_INTERFACE, TRUE)
    /\ Return(p, 202, "OK", NETNS_PRIMARY_INTERFACE)
    /\ UNCHANGED <<nsExists, defLinks, files, ledger, req, trace>>
    /\ Observe(p)

\* plug_network, line 182.
BringIfDown(p) ==
    /\ pc[p] = "net_bring_down"
    /\ nsLinks' = SetLink(nsLinks, loc[p].netns_interface, FALSE)
    /\ Goto(p, "net_bring_up")
    /\ UNCHANGED <<nsExists, defLinks, files, ledger,
                   req, resp, loc, trace>>
    /\ Observe(p)

\* plug_network, lines 183-188.
BringIfUp(p) ==
    /\ pc[p] = "net_bring_up"
    /\ nsLinks' = SetLink(nsLinks, loc[p].netns_interface, TRUE)
    /\ Return(p, 202, "OK", loc[p].netns_interface)
    /\ UNCHANGED <<nsExists, defLinks, files, ledger, req, trace>>
    /\ Observe(p)

(***************************************************************************)
(* A step past the initial checks raises (the osutils writer, the ledger's *)
(* open, pyroute2 or a spawn fails): nothing catches it, the workflow      *)
(* stops where it is and the caller gets a server error.                   *)
(***************************************************************************)
FaultPoints ==
    {"vip_write_file", "net_name", "net_write_file", "ledger_open",
     "create_ns", "sysctl", "ns_exec", "transplant",
     "vip_bring_up", "net_bring_down", "net_bring_up"}

Fault(p) ==
    /\ pc[p] \in FaultPoints
    /\ Return(p, 500, "Internal Server Error", "")
    /\ UNCHANGED <<nsExists, nsLinks, defLinks, files, ledger, req, trace>>
    /\ Observe(p)

(***************************************************************************)
(* The steps of a workflow in flight.                                      *)
(***************************************************************************)
Step(p) ==
    \/ NetnsInterfaceExists(p)
    \/ CheckIpAddresses(p)
    \/ \E isfile \in BOOLEAN : InterfaceByMac(p, isfile)
    \/ WriteVipInterfaceFile(p)
    \/ NameInterface(p)
    \/ WritePortInterfaceFile(p)
    \/ LedgerOpen(p)
    \/ LedgerRead(p)
    \/ LedgerWrite(p)
    \/ CreateNamespace(p)
    \/ \E returncode \in {0, 1} : SysctlSystem(p, returncode)
    \/ \E returncode \in {0, 1} : NsExec(p, returncode)
    \/ Transplant(p)
    \/ BringInterfacesUp(p)
    \/ BringIfDown(p)
    \/ BringIfUp(p)

(***************************************************************************)
(* Spec: one worker serves the requests one after the other, as the        *)
(* design assumes of the transport boundary; any step may raise.           *)
(***************************************************************************)
Next ==
    \/ \E mac \in Macs : HotPlug(mac)
    \/ \E v \in VipInputs, mac \in Macs : PlugVipBegin(1, v[1], v[2], mac)
    \/ \E mac \in Macs, fixed_ips \in FixedIpsInputs :
          PlugNetworkBegin(1, mac, fixed_ips)
    \/ Step(1)
    \/ Fault(1)

Spec == Init /\ [][Next]_vars

(***************************************************************************)
(* SpecConc: two workers each serve one request, their steps interleaved   *)
(* in any order (the code takes no lock).  The NICs are already in the     *)
(* default namespace, the requests are well formed and no step raises.     *)
(***************************************************************************)
InitConc ==
    /\ nsExists = FALSE
    /\ nsLinks = {}
    /\ defLinks = Macs
    /\ files = {}
    /\ ledger = <<>>
    /\ pc = [p \in Procs |-> "idle"]
    /\ req = [p \in Procs |-> NoReq]
    /\ resp = [p \in Procs |-> NoResp]
    /\ loc = [p \in Procs |-> NoLoc]
    /\ trace = [p \in Procs |-> NoTrace]
    /\ changed = [p \in Procs |-> {}]

WellFormedVips == {v \in VipInputs : VipParses(v[1], v[2])}

WellFormedFixedIps == {f \in FixedIpsInputs : _check_ip_addresses(f)}

NextConc ==
    \/ \E p \in Procs, v \in WellFormedVips, mac \in Macs :
          pc[p] = "idle" /\ PlugVipBegin(p, v[1], v[2], mac)
    \/ \E p \in Procs, mac \in Macs, fixed_ips \in WellFormedFixedIps :
          pc[p] = "idle" /\ PlugNetworkBegin(p, mac, fixed_ips)
    \/ \E p \in Procs : Step(p)

SpecConc == InitConc /\ [][NextConc]_vars

(***************************************************************************)
(* Properties.                                                             *)
(***************************************************************************)
\* The workers of the specification at hand.
Workers == DOMAIN pc

Returned(p) == pc[p] = "done"

IsPlugVip(p) == req[p].op = "plug_vip"

IsPlugNetwork(p) == req[p].op = "plug_network"

\* The request's vip and subnet_cidr are an address and a network.
WellFormedVip(p) == ip_address(req[p].vip).ok /\ ip_network(req[p].cidr).ok

\* Each of the request's fixed IPs is an IPv4 or an IPv6 address.
WellFormedFixedIpsOf(p) ==
    \A i \in 1..Len(req[p].fixed_ips) :
        \/ inet_pton("AF_INET", req[p].fixed_ips[i])
        \/ inet_pton("AF_INET6", req[p].fixed_ips[i])

\* Interfaces of the amphora namespace that carry a hardware address.
NetnsInterfaces(mac) == {l \in nsLinks : l.mac = mac}

\* Lines of the ledger that start with a hardware address.
LedgerLines(mac) == {k \in 1..Len(ledger) : ledger[k].mac = mac}

\* C1: a plug_vip call whose vip or subnet_cidr does not parse returns 400
\* and has changed nothing: not the namespaces, not the links of either
\* namespace, not the configuration files, not the ledger.
C1_InvalidVipRejected ==
    \A p \in Workers :
        (IsPlugVip(p) /\ ~WellFormedVip(p)) =>
            /\ Returned(p)
            /\ resp[p].status = 400
            /\ changed[p] = {}

\* Such a call was made for a NIC that is in the default namespace, with a
\* namespace and a ledger that already hold something.
C1_Witness ==
    \E p \in Workers :
        /\ Returned(p) /\ IsPlugVip(p)
        /\ ~WellFormedVip(p)
        /\ resp[p].status = 400
        /\ req[p].mac \in defLinks
        /\ nsExists /\ ledger # <<>>

C3_InvalidFixedIpsNoMutation ==
    \A p \in Workers :
        (Returned(p) /\ IsPlugNetwork(p)
         /\ ~WellFormedFixedIpsOf(p)) =>
            /\ resp[p].status = 400
            /\ changed[p] = {}

\* C4 (as claimed): once a kernel-configuration command of plug_vip has
\* exited non-zero the interface is not moved into the namespace, is not
\* brought up, and the call does not return 202.
C4_NonZeroExitAborts ==
    \A p \in Workers :
        (IsPlugVip(p) /\ trace[p].nonzero) =>
            /\ ~trace[p].moved
            /\ pc[p] # "vip_bring_up"
            /\ ~(Returned(p) /\ resp[p].status = 202)

\* C5 (as claimed): a call that returns 404 has written the rescan trigger
\* exactly once, after a single lookup.
C5_ExactlyOneRescan ==
    \A p \in Workers :
        (Returned(p) /\ resp[p].status = 404) =>
            /\ trace[p].rescans = 1
            /\ trace[p].lookups = 1

\* C5 (amended): a call that returns 404 has looked the address up once and
\* has written the rescan trigger once when /sys/bus/pci/rescan is a regular
\* file, and not at all when it is not; a well-formed request for an address
\* that is in neither namespace returns 404.
C5_RescanWhenTriggerExists ==
    \A p \in Workers :
        /\ (Returned(p) /\ resp[p].status = 404) =>
              /\ trace[p].lookups = 1
              /\ trace[p].isfile => trace[p].rescans = 1
              /\ ~trace[p].isfile => trace[p].rescans = 0
        /\ (/\ Returned(p)
            /\ Where(req[p].mac) = "absent"
            /\ IsPlugVip(p) => WellFormedVip(p)
            /\ IsPlugNetwork(p) => WellFormedFixedIpsOf(p))
           => resp[p].status = 404

C5_Witness ==
    \E p \in Workers :
        /\ Returned(p) /\ resp[p].status = 404
        /\ trace[p].isfile /\ trace[p].rescans = 1

\* C6 (as claimed): a call that returns 404 has changed nothing but the
\* rescan trigger: the namespaces, the links, the files and the ledger are
\* as they were.
C6_NotFoundNoMutation ==
    \A p \in Workers :
        (Returned(p) /\ resp[p].status = 404) => changed[p] = {}

\* C7 (as claimed): a plug_network call that returns 202 named the interface
\* eth{n}, n being the number of links the namespace held when it was named;
\* the response names it so, the link is in the namespace under that name,
\* the configuration file of that name holds the request's addresses, and
\* the ledger records the hardware address under that name.
C7_NetworkNameIsLinkCount ==
    \A p \in Workers :
        (Returned(p) /\ IsPlugNetwork(p) /\ resp[p].status = 202) =>
            LET name == EthName(trace[p].count) IN
            /\ resp[p].interface = name
            /\ \E l \in nsLinks : l.mac = req[p].mac /\ l.name = name
            /\ \E f \in files : /\ f.interface = name
                                /\ f.kind = "port"
                                /\ f.fixed_ips = req[p].fixed_ips
            /\ \E k \in 1..Len(ledger) :
                  ledger[k] = [mac |-> req[p].mac, name |-> name]

\* C8: with the workflows run one after the other the ledger holds at most
\* one line per hardware address, and recording an address that already has
\* a line leaves the ledger as it is.
C8_LedgerOneLinePerMac ==
    /\ [](\A mac \in Macs : Cardinality(LedgerLines(mac)) <= 1)
    /\ [][\A p \in Workers :
            (/\ pc[p] = "ledger_write"
             /\ LedgerLines(req[p].mac) # {}) => ledger' = ledger]_vars

\* A record operation has just run for an address that had a line already.
C8_Witness ==
    \E p \in Workers :
        /\ pc[p] \in {"create_ns", "transplant"}
        /\ trace[p].retry
        /\ "ledger" \notin changed[p]
        /\ Cardinality(LedgerLines(req[p].mac)) = 1
        /\ Len(ledger) = 2

\* C9 (as claimed): when two workflows that record different hardware
\* addresses have both returned, whatever the interleaving of their steps,
\* the ledger holds the line of each.
C9_ConcurrentRecordsIntact ==
    (/\ \A p \in Workers : Returned(p)
     /\ \A p, q \in Workers : p # q => req[p].mac # req[q].mac)
    => \A p \in Workers : LedgerLines(req[p].mac) # {}

\* C10: a call that repeats a request whose previous run was cut short by a
\* raising step, and in which no step raises, returns 409 or 202; the
\* namespace then holds exactly one interface with the hardware address and
\* the ledger exactly one line for it.
C10_RetryConflictsOrResumes ==
    \A p \in Workers :
        (Returned(p) /\ trace[p].retry /\ resp[p].status # 500) =>
            /\ resp[p].status \in {202, 409}
            /\ Cardinality(NetnsInterfaces(req[p].mac)) = 1
            /\ Cardinality(LedgerLines(req[p].mac)) = 1

\* The retry resumed a workflow that had stopped before the transplant.
C10_Witness ==
    \E p \in Workers :
        /\ Returned(p) /\ trace[p].retry
        /\ resp[p].status = 202
        /\ "ledger" \notin changed[p]

\* C11: when plug_vip has returned 202 the amphora namespace exists, the NIC
\* with the request's hardware address is not in the default namespace, it
\* is in the amphora namespace under the primary name, and the ledger holds
\* the line that pairs the address with the primary name; whether the
\* namespace was there before the call or the call created it.
C11_PlugVipPostcondition ==
    \A p \in Workers :
        (Returned(p) /\ IsPlugVip(p) /\ resp[p].status = 202) =>
            /\ nsExists
            /\ req[p].mac \notin defLinks
            /\ \E l \in nsLinks : /\ l.mac = req[p].mac
                                  /\ l.name = NETNS_PRIMARY_INTERFACE
            /\ \E k \in 1..Len(ledger) :
                  ledger[k] = [mac |-> req[p].mac,
                               name |-> NETNS_PRIMARY_INTERFACE]

\* plug_vip succeeded in a namespace that was there before the call, for an
\* address that an earlier workflow had recorded already.
C11_Witness ==
    \E p \in Workers :
        /\ Returned(p) /\ IsPlugVip(p)
        /\ resp[p].status = 202
        /\ "namespaces" \notin changed[p]
        /\ "ledger" \notin changed[p]

\* C12: over any sequence of requests, repeated and retried ones included,
\* a link is moved into the amphora namespace at most once per hardware
\* address: a workflow goes past its existence check only for an address
\* that is not in the namespace, a transplant adds a link for an address
\* the namespace did not hold, no link ever leaves the namespace, and the
\* namespace never holds two links with the same address.
C12_TransplantOncePerMac ==
    /\ [](\A p \in Workers :
            (pc[p] \notin {"idle", "done", "exists"} /\ ~trace[p].moved)
                => NetnsInterfaces(req[p].mac) = {})
    /\ [](\A mac \in Macs : Cardinality(NetnsInterfaces(mac)) <= 1)
    /\ [][/\ \A l \in nsLinks :
                \E m \in nsLinks' : m.mac = l.mac /\ m.name = l.name
          /\ \A p \in Workers :
                (pc[p] = "transplant" /\ trace'[p].moved) =>
                    /\ NetnsInterfaces(req[p].mac) = {}
                    /\ defLinks' = defLinks \ {req[p].mac}]_vars

\* A plug_network request is made again after its first run moved the link
\* and then stopped: the retry is turned away at the existence check.
C12_Witness ==
    \E p \in Workers :
        /\ Returned(p) /\ IsPlugNetwork(p)
        /\ trace[p].retry
        /\ resp[p].status = 409
        /\ ~trace[p].moved
        /\ Cardinality(NetnsInterfaces(req[p].mac)) = 1

\* The four commands of the kernel configuration for a request's VIP.
KernelCommands(p) ==
    <<"sysctl --system",
      "modprobe ip_vs",
      "sysctl -w net.ipv4.vs.conntrack=1",
      IF ip_address(req[p].vip).version = 4
        THEN "sysctl -w net.ipv4.ip_forward=1"
        ELSE "sysctl -w net.ipv6.conf.all.forwarding=1">>

\* C13: the commands a plug_vip run has issued and waited for are, at every
\* moment, the first ones of: sysctl reload, modprobe ip_vs, conntrack, the
\* forwarding setting of the VIP's family (never the other family's); a run
\* that is at the transplant or past it has completed all four.
C13_KernelCommandsInOrder ==
    \A p \in Workers :
        IsPlugVip(p) =>
            /\ Len(trace[p].cmds) <= Len(KernelCommands(p))
            /\ trace[p].cmds = SubSeq(KernelCommands(p), 1, Len(trace[p].cmds))
            /\ (pc[p] = "transplant" \/ trace[p].moved)
                  => trace[p].cmds = KernelCommands(p)

\* An IPv6 VIP's interface has just been transplanted.
C13_Witness ==
    \E p \in Workers :
        /\ IsPlugVip(p)
        /\ pc[p] = "vip_bring_up"
        /\ trace[p].moved
        /\ ip_address(req[p].vip).version = 6
        /\ trace[p].cmds[4] = "sysctl -w net.ipv6.conf.all.forwarding=1"

\* C15: in every reachable state, every interface that a workflow has
\* transplanted into the amphora namespace (every link but the namespace's
\* own loopback) has a line for its hardware address in the ledger; a
\* workflow that is at its transplant has that line already.
C15_TransplantedHasLedgerLine ==
    /\ \A l \in nsLinks : l # Loopback => LedgerLines(l.mac) # {}
    /\ \A p \in Workers :
          pc[p] = "transplant" => LedgerLines(req[p].mac) # {}

\* Two interfaces have been transplanted, the second by plug_network.
C15_Witness ==
    \E p \in Workers :
        /\ IsPlugNetwork(p) /\ trace[p].moved
        /\ "ledger" \in changed[p]
        /\ Cardinality(nsLinks \ {Loopback}) = 2

\* C16 (as claimed): in every state reached by requests served one after the
\* other, aborted and retried ones included, the ledger line of every
\* interface in the amphora namespace carries the name the interface has
\* there, and no two ledger lines carry the same interface name.
C16_LedgerNamesMatchLinks ==
    /\ \A l \in nsLinks : \A k \in LedgerLines(l.mac) :
          ledger[k].name = l.name
    /\ \A j, k \in 1..Len(ledger) :
          j # k => ledger[j].name # ledger[k].name

\* C17 (as claimed): with requests served one after the other, a workflow
\* that is about to transplant the interface of an address it is the first
\* to record never asks for a name that a link of the amphora namespace
\* holds already, and the name plug_network computes from the link count is
\* never the primary name, which plug_vip uses.
C17_NoNameCollision ==
    \A p \in Workers :
        /\ (pc[p] = "transplant" /\ "ledger" \in changed[p]) =>
              \A l \in nsLinks : l.name # loc[p].netns_interface
        /\ (IsPlugNetwork(p) /\ loc[p].netns_interface # "") =>
              loc[p].netns_interface # NETNS_PRIMARY_INTERFACE

\* The statements of plug_network that follow the naming of the interface.
NamedStatements ==
    {"net_write_file", "ledger_open", "ledger_read", "ledger_write",
     "transplant", "net_bring_down", "net_bring_up"}

\* C18 (as claimed): when two plug_network workflows for two different
\* hardware addresses run with their steps interleaved, the names they
\* have computed for their interfaces differ.
C18_ConcurrentNamesDiffer ==
    \A p, q \in Workers :
        (/\ p # q
         /\ IsPlugNetwork(p) /\ IsPlugNetwork(q)
         /\ req[p].mac # req[q].mac
         /\ pc[p] \in NamedStatements /\ pc[q] \in NamedStatements)
        => loc[p].netns_interface # loc[q].netns_interface

\* C19 (as claimed): whenever a request has returned 202 or 409, the
\* interface with the request's hardware address in the amphora namespace
\* is administratively up, also when an earlier attempt had stopped after
\* the transplant and before or during the bring-up.
C19_ReturnedMeansUp ==
    \A p \in Workers :
        (Returned(p) /\ resp[p].status \in {202, 409}) =>
            /\ NetnsInterfaces(req[p].mac) # {}
            /\ \A l \in NetnsInterfaces(req[p].mac) : l.up

====
